---- MODULE Spec2Model ----
(***************************************************************************)
(* Screen recording keywords of SeleniumLibrary/keywords/screenshot.py:    *)
(* "Screen Record Start" appends a session to the process-wide list        *)
(* screen_video_queue and starts a capture thread; the thread takes        *)
(* screenshots until the session's recording flag is cleared; "Screen      *)
(* Record Stop" clears the flag, polls the finished flag and writes the    *)
(* captured frames to a video.                                             *)
(*                                                                         *)
(* A session is the Python list [elapsed, recording, screenshots,          *)
(* finished] (positions 0..3); here a record with those field names.       *)
(* Python handles are 0-based, TLA+ sequences 1-based: the session with    *)
(* handle h is screen_video_queue[h + 1].                                  *)
(*                                                                         *)
(* Time is counted in ticks, TicksPerUnit ticks to one time unit           *)
(* (second), so that elapsed times below one unit exist. time.sleep only   *)
(* yields: the passage of time is the Tick action.                         *)
(***************************************************************************)
EXTENDS Integers, Sequences, FiniteSets, TLC

VARIABLES
    browser,                \* self.drivers.current: a browser is attached
    queue_defined,          \* the global screen_video_queue exists
    screen_video_queue,     \* the list of sessions
    loops,                  \* one capture thread per session: pc and locals
    g_screenshots_index,    \* global counter of _get_video_image_path
    g_video_index,          \* global counter of _get_video_path
    files,                  \* paths that exist on the file system
    now,                    \* time.time(), in ticks
    stop,                   \* the main thread's Screen Record Stop call
    handles,                \* values returned by Screen Record Start, in order
    videos,                 \* what each VideoWriter was given, in order
    call                    \* the last call of a path function (SpecPath)

vars == <<browser, queue_defined, screen_video_queue, loops, g_screenshots_index,
          g_video_index, files, now, stop, handles, videos, call>>

----------------------------------------------------------------------------
(* Bounds of the model *)

MaxSessions == 2        \* Screen Record Start calls
MaxIndex == 2           \* a capture iteration starts only below this counter value
MaxTime == 1            \* ticks of the clock
MaxStops == 2           \* Screen Record Stop calls
MaxPre == 2             \* indices whose path may exist beforehand in SpecPath
MaxCalls == 2           \* calls of each path function in SpecPath
TicksPerUnit == 2       \* clock resolution
MaxFpsFrames == 10      \* frames of the session in SpecFps
MaxFpsUnits == 100      \* elapsed time units of the session in SpecFps

----------------------------------------------------------------------------
(* File names and paths *)

\* A file name template is a sequence of pieces; "{index}" is the placeholder.
IndexedPng == <<"screenshots-", "{index}", ".png">>
PlainPng == <<"screenshot.png">>
IndexedMp4 == <<"video-", "{index}", ".mp4">>
PlainMp4 == <<"video.mp4">>

ImageNames == {IndexedPng, PlainPng}
VideoNames == {IndexedMp4, PlainMp4}

\* filename.format(index=index)
Format(filename, index) ==
    [k \in 1..Len(filename) |->
        IF filename[k] = "{index}" THEN ToString(index) ELSE filename[k]]

\* os.path.join(directory, formatted)
Path(formatted) == <<"dir">> \o formatted

PathFound_Exists(filename, index, fs) ==
    \/ Format(filename, index) = filename
    \/ Path(Format(filename, index)) \in fs

PathFound_FreeOnly(filename, index, fs) ==
    Path(Format(filename, index)) \notin fs

\* the test that ends the while True loop of the three path functions
PathFound(filename, index, fs) ==
    \/ Format(filename, index) = filename
    \/ Path(Format(filename, index)) \notin fs

\* The while True loop of a path function run without interruption from the
\* counter value index: the counter value it returns with. Every round
\* increments first. A template whose path always exists has no free index;
\* the recursion is cut after one round per existing file.
RECURSIVE NextIndexFrom(_, _, _, _)
NextIndexFrom(filename, index, fs, rounds) ==
    IF PathFound(filename, index + 1, fs) \/ rounds = 0
    THEN index + 1
    ELSE NextIndexFrom(filename, index + 1, fs, rounds - 1)

NextIndex(filename, index, fs) ==
    NextIndexFrom(filename, index, fs, Cardinality(fs))

----------------------------------------------------------------------------
(* Sessions *)

NewSession == [elapsed |-> 0, recording |-> TRUE, screenshots |-> <<>>,
               finished |-> FALSE]

StartIndex_Length(queue) == Len(queue)

\* index = len(screen_video_queue) - 1, after the append
StartIndex(queue) == Len(queue) - 1

NewLoop(filename) ==
    [pc |-> "start", filename |-> filename, start_time |-> 0, reg |-> 0,
     path |-> <<>>, index |-> 0]

\* The Stop call: pc, the int arg given as index (while the call runs), the
\* handle h of the session reached, count (=
\* wait_finishing_record_count), and for the record how the call ended, how
\* many videos existed and what g_video_index was when it began, how many
\* calls were made, and whether the call is a retry: it began on a session
\* that was finished, right after a call that gave up on the same session.
IdleStop == [pc |-> "idle", arg |-> 0, h |-> 0, count |-> 0, outcome |-> "none",
             videos0 |-> 0, video_index0 |-> 0, calls |-> 0, retry |-> FALSE]

\* The last call of a path function: which one, its template, the counter
\* before and after, the path returned, whether the caller has written the
\* file since, and how many calls each function has had.
NoCall == [fn |-> "none", filename |-> <<>>, index0 |-> 0, index |-> 0,
           path |-> <<>>, saved |-> FALSE,
           calls |-> [screenshot |-> 0, image |-> 0, video |-> 0]]

Init ==
    /\ browser \in BOOLEAN
    /\ queue_defined = FALSE
    /\ screen_video_queue = <<>>
    /\ loops = <<>>
    /\ g_screenshots_index = 0
    /\ g_video_index = 0
    /\ files = {}
    /\ now = 0
    /\ stop = IdleStop
    /\ handles = <<>>
    /\ videos = <<>>
    /\ call = NoCall

----------------------------------------------------------------------------
(* Screen Record Start: capture_screenshots *)

Start(filename) ==
    /\ stop.pc = "idle"
    /\ queue_defined' = TRUE
    /\ screen_video_queue' = Append(screen_video_queue, NewSession)
    /\ LET index == StartIndex(screen_video_queue')
       IN /\ loops' = Append(loops, [NewLoop(filename) EXCEPT !.index = index])
          /\ handles' = Append(handles, index)
    /\ UNCHANGED <<browser, g_screenshots_index, g_video_index, files, now, stop,
                   videos, call>>

----------------------------------------------------------------------------
(* The capture thread: _loop_capture_screenshots, with the body of          *)
(* _get_video_image_path in place. t is the thread's position in loops; its *)
(* session is screen_video_queue[index + 1]. A step whose session does not  *)
(* exist is an IndexError that ends the thread.                             *)

Bound(t) == loops[t].index + 1 \in DOMAIN screen_video_queue
Sess(t) == screen_video_queue[loops[t].index + 1]
SetSess_First(t, s) == [screen_video_queue EXCEPT ![1] = s]

\* a write to screen_video_queue[index][...] by the thread
SetSess(t, s) == [screen_video_queue EXCEPT ![loops[t].index + 1] = s]
Goto(t, pc) == [loops EXCEPT ![t].pc = pc, ![t].path = <<>>]

Recording_Never(s) == FALSE

\* the condition of the capture loop: screen_video_queue[index][1]
Recording(s) == s.recording

\* start_time = time.time()
LoopStart(t) ==
    /\ loops[t].pc = "start"
    /\ loops' = [loops EXCEPT ![t].pc = "while", ![t].start_time = now]
    /\ UNCHANGED <<browser, queue_defined, screen_video_queue, g_screenshots_index,
                   g_video_index, files, now, stop, handles, videos, call>>

\* while screen_video_queue[index][1]: the flag is read once per iteration;
\* read false, the thread leaves the loop and sets finished
LoopWhile(t) ==
    /\ loops[t].pc = "while"
    /\ Bound(t)
    /\ IF Recording(Sess(t))
       THEN /\ g_screenshots_index < MaxIndex
            /\ loops' = [loops EXCEPT ![t].pc = "load", ![t].path = <<>>]
            /\ UNCHANGED screen_video_queue
       ELSE /\ loops' = [loops EXCEPT ![t].pc = "done", ![t].path = <<>>]
            /\ screen_video_queue' = SetSess(t, [Sess(t) EXCEPT !.finished = TRUE])
    /\ UNCHANGED <<browser, queue_defined, g_screenshots_index, g_video_index, files,
                   now, stop, handles, videos, call>>

\* g_screenshots_index += 1 is a load and a store: two threads can interleave
LoopLoad(t) ==
    /\ loops[t].pc = "load"
    /\ loops' = [loops EXCEPT ![t].pc = "store", ![t].reg = g_screenshots_index]
    /\ UNCHANGED <<browser, queue_defined, screen_video_queue, g_screenshots_index,
                   g_video_index, files, now, stop, handles, videos, call>>

LoopStore(t) ==
    /\ loops[t].pc = "store"
    /\ g_screenshots_index' = loops[t].reg + 1
    /\ loops' = [loops EXCEPT ![t].pc = "format", ![t].reg = 0]
    /\ UNCHANGED <<browser, queue_defined, screen_video_queue, g_video_index, files,
                   now, stop, handles, videos, call>>

\* formatted = filename.format(index=g_screenshots_index) reads the global again
LoopFormat(t) ==
    /\ loops[t].pc = "format"
    /\ IF PathFound(loops[t].filename, g_screenshots_index, files)
       THEN loops' = [loops EXCEPT
                ![t].pc = "capture",
                ![t].path = Path(Format(loops[t].filename, g_screenshots_index))]
       ELSE loops' = Goto(t, "load")
    /\ UNCHANGED <<browser, queue_defined, screen_video_queue, g_screenshots_index,
                   g_video_index, files, now, stop, handles, videos, call>>

\* self.driver.save_screenshot(path): True, False, or an exception; without a
\* browser self.driver raises
CaptureResults == IF browser THEN {"True", "False", "raise"} ELSE {"raise"}

AfterExcept_Exit == "exit"

\* where the except clause leaves the thread: info, sleep, next iteration
AfterExcept == "while"

LoopCapture(t) ==
    /\ loops[t].pc = "capture"
    /\ Bound(t)
    /\ \E result \in CaptureResults :
        CASE result = "True" ->
                /\ files' = files \cup {loops[t].path}
                /\ screen_video_queue' = SetSess(t,
                        [Sess(t) EXCEPT
                            !.screenshots = Append(@, loops[t].path),
                            !.elapsed = now - loops[t].start_time])
                /\ loops' = Goto(t, "while")
          [] result = "False" ->
                /\ screen_video_queue' = SetSess(t,
                        [Sess(t) EXCEPT !.elapsed = now - loops[t].start_time])
                /\ loops' = Goto(t, "while")
                /\ UNCHANGED files
          [] result = "raise" ->
                /\ loops' = Goto(t, "except")
                /\ UNCHANGED <<files, screen_video_queue>>
    /\ UNCHANGED <<browser, queue_defined, g_screenshots_index, g_video_index, now,
                   stop, handles, videos, call>>

\* except: self.info('Cannot capture screenshots'); time.sleep(1)
LoopExcept(t) ==
    /\ loops[t].pc = "except"
    /\ loops' = Goto(t, AfterExcept)
    /\ UNCHANGED <<browser, queue_defined, screen_video_queue, g_screenshots_index,
                   g_video_index, files, now, stop, handles, videos, call>>

LoopStep(t) ==
    \/ LoopStart(t)
    \/ LoopWhile(t)
    \/ LoopLoad(t)
    \/ LoopStore(t)
    \/ LoopFormat(t)
    \/ LoopCapture(t)
    \/ LoopExcept(t)

----------------------------------------------------------------------------
(* Screen Record Stop: stop_recording_and_save_to_mp4 *)

GiveUpCount_Six == 5 + 1

\* the polls after which Stop gives up: wait_finishing_record_count == 5
GiveUpCount == 5

\* index is None or int(index) >= len(screen_video_queue) raises RuntimeError
IndexRejected(none, arg, len) == none \/ arg >= len

\* screen_video_queue[index] for an int that passed the test: a Python list
\* takes a negative index from the end; below -len it raises IndexError.
\* The handle of the session reached, or -1 for IndexError.
ListIndex(arg, len) ==
    IF arg >= 0 THEN arg
    ELSE IF len + arg >= 0 THEN len + arg
    ELSE -1

ShouldAssemble_ElapsedOnly(s) == s.elapsed # 0

\* screen_video_queue[index][0] != 0 and len(screen_video_queue[index][2]) > 0
ShouldAssemble(s) == s.elapsed # 0 /\ Len(s.screenshots) > 0

Fps_NoFrameCount(n, e) ==
    LET fps == (n * TicksPerUnit) \div e
    IN IF fps < 1 THEN 1 ELSE fps

\* fps = int(len / elapsed), elapsed a positive number of ticks;
\* if fps < 1 or len < 5: fps = 1
Fps(n, e) ==
    LET fps == (n * TicksPerUnit) \div e
    IN IF fps < 1 \/ n < 5 THEN 1 ELSE fps

\* for i in range(1, len(...)): videoWriter.write(imread(...[i]))
FramesWritten(screenshots) == SubSeq(screenshots, 2, Len(screenshots))

Finished_AtOnce(s) == TRUE

Finished_Never(s) == FALSE

\* what the wait loop of Stop reads: screen_video_queue[index][3]
Finished(s) == s.finished

\* a call that has returned keeps h, count and outcome for the record
Returned(outcome) ==
    [IdleStop EXCEPT !.h = stop.h, !.count = stop.count, !.outcome = outcome,
                     !.videos0 = stop.videos0,
                     !.video_index0 = stop.video_index0, !.calls = stop.calls,
                     !.retry = stop.retry]

\* index is None (none), or the int arg
StopBegin(none, arg) ==
    /\ stop.pc = "idle"
    /\ stop.calls < MaxStops
    /\ LET len == Len(screen_video_queue)
           failed == [IdleStop EXCEPT !.outcome = "error",
                                      !.videos0 = Len(videos),
                                      !.video_index0 = g_video_index,
                                      !.calls = stop.calls + 1]
       IN IF ~queue_defined \/ IndexRejected(none, arg, len)
          THEN stop' = failed /\ UNCHANGED screen_video_queue
          ELSE IF ListIndex(arg, len) < 0
          THEN stop' = failed /\ UNCHANGED screen_video_queue
          ELSE /\ stop' = [pc |-> "poll", arg |-> arg, h |-> ListIndex(arg, len),
                           count |-> 0, outcome |-> "running",
                           videos0 |-> Len(videos),
                           video_index0 |-> g_video_index,
                           calls |-> stop.calls + 1,
                           retry |-> /\ stop.outcome = "timeout"
                                     /\ stop.h = ListIndex(arg, len)
                                     /\ screen_video_queue[stop.h + 1].finished]
               /\ screen_video_queue' =
                    [screen_video_queue EXCEPT
                        ![ListIndex(arg, len) + 1].recording = FALSE]
    /\ UNCHANGED <<browser, queue_defined, loops, g_screenshots_index, g_video_index,
                   files, now, handles, videos, call>>

\* while not finished: time.sleep(1); count += 1; if count == 5: return
StopWait ==
    /\ stop.pc = "poll"
    /\ ~Finished(screen_video_queue[stop.h + 1])
    /\ stop' = IF stop.count + 1 = GiveUpCount
               THEN [Returned("timeout") EXCEPT !.count = stop.count + 1]
               ELSE [stop EXCEPT !.count = stop.count + 1]
    /\ UNCHANGED <<browser, queue_defined, screen_video_queue, loops,
                   g_screenshots_index, g_video_index, files, now, handles, videos,
                   call>>

\* finished read true: the logs, then the video if there is something to
\* write. video_name, the call's second argument, is not read before this step.
StopFinish(video_name) ==
    /\ stop.pc = "poll"
    /\ Finished(screen_video_queue[stop.h + 1])
    /\ LET s == screen_video_queue[stop.h + 1]
           index == NextIndex(video_name, g_video_index, files)
           path == Path(Format(video_name, index))
       IN IF ShouldAssemble(s)
          THEN /\ g_video_index' = index
               /\ files' = files \cup {path}
               /\ videos' = Append(videos,
                    [handle |-> stop.h,
                     video_name |-> video_name,
                     path |-> path,
                     existed |-> path \in files,
                     fps |-> Fps(Len(s.screenshots), s.elapsed),
                     size_of |-> IF s.screenshots = <<>> THEN <<>>
                                 ELSE s.screenshots[1],
                     frames |-> FramesWritten(s.screenshots)])
               /\ stop' = Returned("video")
          ELSE /\ stop' = Returned("skipped")
               /\ UNCHANGED <<g_video_index, files, videos>>
    /\ UNCHANGED <<browser, queue_defined, screen_video_queue, loops,
                   g_screenshots_index, now, handles, call>>

----------------------------------------------------------------------------
(* time.time() advances *)

Tick ==
    /\ now < MaxTime
    /\ now' = now + 1
    /\ UNCHANGED <<browser, queue_defined, screen_video_queue, loops,
                   g_screenshots_index, g_video_index, files, stop, handles, videos,
                   call>>

----------------------------------------------------------------------------

\* the index arguments tried: None and every int from -(MaxSessions + 1) to
\* MaxSessions
StopInts == (0 - MaxSessions - 1)..MaxSessions

\* the steps of the main thread other than Screen Record Start, of the
\* capture threads and of the clock
Run ==
    \/ \E t \in DOMAIN loops : LoopStep(t)
    \/ StopBegin(TRUE, 0)
    \/ \E arg \in StopInts : StopBegin(FALSE, arg)
    \/ StopWait
    \/ \E video_name \in VideoNames : StopFinish(video_name)
    \/ Tick

Next ==
    \/ \E filename \in ImageNames :
            Len(screen_video_queue) < MaxSessions /\ Start(filename)
    \/ Run

Spec == Init /\ [][Next]_vars

\* One recording: Screen Record Start is called once. Its capture thread is an
\* operating system thread, scheduled again and again.
NextOne ==
    \/ \E filename \in ImageNames :
            screen_video_queue = <<>> /\ Start(filename)
    \/ Run

SpecOne == Init /\ [][NextOne]_vars

FairSpec == SpecOne /\ WF_vars(1 \in DOMAIN loops /\ LoopStep(1))

----------------------------------------------------------------------------
(* The three path functions run one call at a time, from any file system *)

PrePaths ==
    {Path(Format(filename, i)) : filename \in {IndexedPng, IndexedMp4},
                                 i \in 1..MaxPre}
        \cup {Path(PlainPng), Path(PlainMp4)}

InitPath ==
    /\ browser = TRUE
    /\ queue_defined = FALSE
    /\ screen_video_queue = <<>>
    /\ loops = <<>>
    /\ g_screenshots_index = 0
    /\ g_video_index = 0
    /\ files \in SUBSET PrePaths
    /\ now = 0
    /\ stop = IdleStop
    /\ handles = <<>>
    /\ videos = <<>>
    /\ call = NoCall

Called(fn, filename, index0, index) ==
    [fn |-> fn, filename |-> filename, index0 |-> index0, index |-> index,
     path |-> Path(Format(filename, index)), saved |-> FALSE,
     calls |-> [call.calls EXCEPT ![fn] = @ + 1]]

\* _get_screenshot_path: index = 0, a local variable
GetScreenshotPath(filename) ==
    /\ call.calls.screenshot < MaxCalls
    /\ call' = Called("screenshot", filename, 0, NextIndex(filename, 0, files))
    /\ UNCHANGED <<browser, queue_defined, screen_video_queue, loops,
                   g_screenshots_index, g_video_index, files, now, stop, handles,
                   videos>>

\* _get_video_image_path, run by one thread alone
GetVideoImagePath(filename) ==
    /\ call.calls.image < MaxCalls
    /\ g_screenshots_index' = NextIndex(filename, g_screenshots_index, files)
    /\ call' = Called("image", filename, g_screenshots_index, g_screenshots_index')
    /\ UNCHANGED <<browser, queue_defined, screen_video_queue, loops, g_video_index,
                   files, now, stop, handles, videos>>

\* _get_video_path
GetVideoPath(filename) ==
    /\ call.calls.video < MaxCalls
    /\ g_video_index' = NextIndex(filename, g_video_index, files)
    /\ call' = Called("video", filename, g_video_index, g_video_index')
    /\ UNCHANGED <<browser, queue_defined, screen_video_queue, loops,
                   g_screenshots_index, files, now, stop, handles, videos>>

\* the caller writes the file: save_screenshot(path), VideoWriter(path, ...)
SaveFile ==
    /\ call.fn # "none"
    /\ ~call.saved
    /\ files' = files \cup {call.path}
    /\ call' = [call EXCEPT !.saved = TRUE]
    /\ UNCHANGED <<browser, queue_defined, screen_video_queue, loops,
                   g_screenshots_index, g_video_index, now, stop, handles, videos>>

NextPath ==
    \/ \E filename \in ImageNames : GetScreenshotPath(filename)
    \/ \E filename \in ImageNames : GetVideoImagePath(filename)
    \/ \E filename \in VideoNames : GetVideoPath(filename)
    \/ SaveFile

SpecPath == InitPath /\ [][NextPath]_vars

----------------------------------------------------------------------------
(* Screen Record Stop on a session whose thread has finished with n frames *)
(* and an elapsed time of e ticks, after an earlier Stop gave up           *)

FpsFrames(n) == [k \in 1..n |-> Path(Format(IndexedPng, k))]

InitFps ==
    \E n \in 1..MaxFpsFrames, e \in 0..(MaxFpsUnits * TicksPerUnit) :
        /\ browser = TRUE
        /\ queue_defined = TRUE
        /\ screen_video_queue =
                <<[elapsed |-> e, recording |-> FALSE,
                   screenshots |-> FpsFrames(n), finished |-> TRUE]>>
        /\ loops = <<[NewLoop(IndexedPng) EXCEPT !.pc = "done"]>>
        /\ g_screenshots_index = n
        /\ g_video_index = 0
        /\ files = {FpsFrames(n)[k] : k \in 1..n}
        /\ now = e
        /\ stop = [IdleStop EXCEPT !.count = GiveUpCount, !.outcome = "timeout",
                                   !.calls = 1]
        /\ handles = <<0>>
        /\ videos = <<>>
        /\ call = NoCall

NextFps ==
    \/ StopBegin(FALSE, 0)
    \/ \E video_name \in VideoNames : StopFinish(video_name)

SpecFps == InitFps /\ [][NextFps]_vars

----------------------------------------------------------------------------
(* Properties *)

HasPlaceholder(filename) == \E k \in DOMAIN filename : filename[k] = "{index}"

Session(h) == screen_video_queue[h + 1]

\* C1: the handles returned by Screen Record Start are 0, 1, ..., N-1 in call
\* order, whatever capture steps and Stop calls come in between, and the k-th
\* handle is the position of the session that call appended, the one its
\* capture thread is bound to.
C1_HandlesAreDense ==
    /\ Len(handles) = Len(screen_video_queue)
    /\ Len(loops) = Len(handles)
    /\ \A k \in DOMAIN handles :
        /\ handles[k] = k - 1
        /\ loops[k].index = handles[k]

C1_Witness ==
    /\ handles = <<0, 1>>
    /\ stop.calls > 0
    /\ Session(0).finished
    /\ Session(1).screenshots # <<>>

\* C2: Stop with no session list, with None, or with an int that is not the
\* position of a session (outside 0..len-1) fails at once: the call ends in
\* an error without polling, and no field of any session changes. So every
\* call made without a session list has ended in an error, and a call that
\* has cleared a recording flag and polls was given an int in 0..len-1.
C2_StopRejectsInvalidHandle ==
    /\ ~queue_defined => stop.calls = 0 \/ stop.outcome = "error"
    /\ stop.pc = "poll" => stop.arg \in 0..(Len(screen_video_queue) - 1)

\* C3: Stop on a session polls finished at most 5 times and then returns: a
\* polling Stop can always take its next step, it has slept fewer than 5
\* times, and a Stop that gave up slept 5 times, returned normally and wrote
\* no video, also when the capture thread never ran.
C3_StopGivesUpAfterFivePolls ==
    /\ stop.count <= 5
    /\ stop.pc = "poll" =>
        /\ stop.count < 5
        /\ Len(videos) = stop.videos0
        /\ ENABLED (StopWait \/ \E video_name \in VideoNames : StopFinish(video_name))
    /\ stop.outcome = "timeout" =>
        /\ stop.pc = "idle"
        /\ stop.count = 5
        /\ Len(videos) = stop.videos0
        /\ g_video_index = stop.video_index0
    /\ stop.outcome \in {"video", "skipped"} => stop.count <= 4

C3_Witness ==
    /\ stop.outcome = "timeout"
    /\ loops[stop.h + 1].pc = "start"
    /\ ~Session(stop.h).finished

\* C4: Screen Record Start without a browser is a no-op: no session is
\* appended, no capture thread is started and no handle is returned.
C4_StartWithoutBrowserIsNoOp ==
    ~browser =>
        /\ screen_video_queue = <<>>
        /\ loops = <<>>
        /\ handles = <<>>

\* C5: the frames written to a video are the session's screenshots, every one
\* of them in capture order, the first included.
C5_VideoHoldsEveryFrame ==
    \A k \in DOMAIN videos :
        videos[k].frames = Session(videos[k].handle).screenshots

\* C6: a Stop that read finished true writes a video exactly if the session's
\* elapsed time is not 0 and it has at least one screenshot; otherwise no
\* video is written and no video path is taken from the counter.
C6_VideoIffElapsedAndFrames ==
    (stop.pc = "idle" /\ stop.outcome \in {"video", "skipped"}) =>
        LET s == Session(stop.h)
        IN /\ stop.outcome = "video" <=> (s.elapsed # 0 /\ s.screenshots # <<>>)
           /\ stop.outcome = "video" =>
                /\ Len(videos) = stop.videos0 + 1
                /\ videos[Len(videos)].handle = stop.h
                /\ g_video_index > stop.video_index0
           /\ stop.outcome = "skipped" =>
                /\ Len(videos) = stop.videos0
                /\ g_video_index = stop.video_index0

C6_Witness ==
    /\ stop.pc = "idle"
    /\ stop.outcome = "skipped"
    /\ Session(stop.h).screenshots = <<>>
    /\ g_screenshots_index = 0
    /\ browser

\* C7: with n >= 1 frames and a positive elapsed time e the frame rate of the
\* video is floor(n / e) if that is at least 1 and n >= 5, and 1 otherwise;
\* it is never below 1. e is in ticks, so n / e time units is
\* n * TicksPerUnit / e.
C7_FpsIsClampedFloor ==
    \A k \in DOMAIN videos :
        LET n == Len(Session(videos[k].handle).screenshots)
            e == Session(videos[k].handle).elapsed
            fps == videos[k].fps
            floor == CHOOSE q \in 0..(n * TicksPerUnit) :
                        q * e <= n * TicksPerUnit /\ n * TicksPerUnit < (q + 1) * e
        IN /\ n >= 1 /\ e > 0
           /\ fps >= 1
           /\ fps = IF floor >= 1 /\ n >= 5 THEN floor ELSE 1
           /\ (n = 10 /\ e = 5 * TicksPerUnit) => fps = 2
           /\ (n = 3 /\ e = 10 * TicksPerUnit) => fps = 1
           /\ (n = 1 /\ e = 100 * TicksPerUnit) => fps = 1
           /\ (n = 6 /\ e = 3 * TicksPerUnit) => fps = 2

C7_Witness ==
    /\ videos # <<>>
    /\ Len(Session(0).screenshots) = 10
    /\ Session(0).elapsed = 5 * TicksPerUnit
    /\ videos[1].fps = 2

\* C8: once Stop has cleared a session's recording flag, its capture thread
\* sets finished, however many captures failed; and a capture thread ends
\* only with the flag cleared.
C8_StoppedLoopFinishes ==
    /\ (1 \in DOMAIN screen_video_queue /\ ~screen_video_queue[1].recording)
            ~> (1 \in DOMAIN screen_video_queue /\ screen_video_queue[1].finished)
    /\ [](\A t \in DOMAIN loops :
            loops[t].pc = "done"
                => (~screen_video_queue[t].recording /\ screen_video_queue[t].finished))

C8_Witness ==
    /\ screen_video_queue # <<>>
    /\ screen_video_queue[1].finished
    /\ screen_video_queue[1].screenshots = <<>>
    /\ g_screenshots_index = MaxIndex
    /\ browser

\* C9: a path function called with a template that has the placeholder, the
\* counter at c, returns the path of the smallest index above c whose path
\* does not exist, and leaves the counter at that index.
C9_NextPathIsFirstFree ==
    (call.fn # "none" /\ ~call.saved /\ HasPlaceholder(call.filename)) =>
        /\ call.index > call.index0
        /\ call.path = Path(Format(call.filename, call.index))
        /\ call.path \notin files
        /\ \A i \in (call.index0 + 1)..(call.index - 1) :
                Path(Format(call.filename, i)) \in files
        /\ call.fn = "image" => g_screenshots_index = call.index
        /\ call.fn = "video" => g_video_index = call.index

C9_Witness ==
    /\ call.fn = "video"
    /\ ~call.saved
    /\ call.filename = IndexedMp4
    /\ call.index0 = 0
    /\ \A i \in 1..MaxPre : Path(Format(IndexedMp4, i)) \in files
    /\ call.index = MaxPre + 1

\* C10: a path function called with a template without the placeholder
\* returns the same path at every call, whatever the counter and whether or
\* not the path exists, after one increment of the counter.
C10_PlainNameIsFixed ==
    (call.fn # "none" /\ ~HasPlaceholder(call.filename)) =>
        /\ call.path = Path(call.filename)
        /\ call.index = call.index0 + 1

C10_Witness ==
    /\ call.fn = "image"
    /\ call.filename = PlainPng
    /\ ~call.saved
    /\ call.path \in files
    /\ call.index0 > 0
    /\ call.calls.image = 2

\* C11: in every state a session whose finished flag is set has its recording
\* flag cleared: the capture thread sets finished only after it read the flag
\* false, so the thread has ended and a Stop call has been made before.
C11_FinishedImpliesNotRecording ==
    \A k \in DOMAIN screen_video_queue :
        screen_video_queue[k].finished =>
            /\ ~screen_video_queue[k].recording
            /\ loops[k].pc = "done"
            /\ stop.calls > 0

C11_Witness ==
    /\ screen_video_queue # <<>>
    /\ Session(0).finished
    /\ Session(0).screenshots # <<>>
    /\ stop.pc = "poll"
    /\ stop.count > 0

\* C12: the screenshots of a session only grow, by appending, and a
\* screenshot is appended only in a state where the session's recording flag
\* is set: none is added after Stop has cleared the flag.
C12_FramesOnlyWhileRecording ==
    [][\A k \in DOMAIN screen_video_queue :
            LET before == screen_video_queue[k].screenshots
                after == screen_video_queue'[k].screenshots
            IN /\ Len(after) >= Len(before)
               /\ SubSeq(after, 1, Len(before)) = before
               /\ after # before => screen_video_queue[k].recording]_vars

\* C13: a Stop call reads the session's screenshots and elapsed time (the
\* step that ends the call with a video or with nothing to write) and writes
\* a video only in a state where it reads finished true; a call that gives up
\* has not read finished true, and writes no video and takes no video index.
C13_AssemblyOnlyAfterFinishedRead ==
    [][/\ (videos' # videos \/ g_video_index' # g_video_index) =>
            /\ stop.pc = "poll"
            /\ Session(stop.h).finished
            /\ Len(videos') = Len(videos) + 1
            /\ videos'[Len(videos')].handle = stop.h
       /\ (stop.pc = "poll" /\ stop'.outcome \in {"video", "skipped"}) =>
            Session(stop.h).finished
       /\ (stop.pc = "poll" /\ stop'.outcome = "timeout") =>
            /\ ~Session(stop.h).finished
            /\ UNCHANGED <<videos, g_video_index, files>>]_vars

C13_Witness ==
    /\ stop.pc = "idle"
    /\ stop.outcome = "video"
    /\ stop.count > 0
    /\ stop.calls = 1

\* C14: the capture thread changes a session's elapsed time only in the step
\* that appends a screenshot, and sets it to the time of that capture since
\* the thread started; so a session without a screenshot has elapsed time 0.
C14_ElapsedOnlyOnSuccess ==
    [][\A k \in DOMAIN screen_video_queue :
            LET s == screen_video_queue[k]
                s2 == screen_video_queue'[k]
            IN /\ s2.elapsed # s.elapsed =>
                    /\ Len(s2.screenshots) = Len(s.screenshots) + 1
                    /\ s2.elapsed = now - loops[k].start_time
               /\ s2.screenshots = <<>> => s2.elapsed = 0]_vars

\* C15: a capture attempt that fails (save_screenshot returns False or
\* raises) appends no screenshot and takes the thread to the except clause,
\* the log message and the pause, before the next attempt.
C15_FailedCaptureLogsAndPauses ==
    [][\A t \in DOMAIN loops :
            LET k == loops[t].index + 1
            IN (/\ loops[t].pc = "capture"
                /\ loops'[t].pc # "capture"
                /\ Len(screen_video_queue'[k].screenshots)
                        = Len(screen_video_queue[k].screenshots)) =>
                    /\ screen_video_queue'[k].screenshots
                            = screen_video_queue[k].screenshots
                    /\ loops'[t].pc = "except"]_vars

\* C16: with capture threads running concurrently on templates that have the
\* placeholder, no path is allocated twice: no path occurs twice in the
\* screenshots of one session or in the screenshots of two sessions.
C16_FramePathsAreDistinct ==
    \A j, k \in DOMAIN screen_video_queue :
        (HasPlaceholder(loops[j].filename) /\ HasPlaceholder(loops[k].filename)) =>
            \A a \in DOMAIN screen_video_queue[j].screenshots,
               b \in DOMAIN screen_video_queue[k].screenshots :
                screen_video_queue[j].screenshots[a] = screen_video_queue[k].screenshots[b]
                    => (j = k /\ a = b)

\* C17: the counters of the path functions only count up: a step of a capture
\* thread changes the frame counter by adding 1 to it, also when several
\* threads run; the video counter never decreases; neither is reset; and no
\* step changes both.
C17_CountersOnlyStepUp ==
    [][/\ g_screenshots_index' \in {g_screenshots_index, g_screenshots_index + 1}
       /\ g_video_index' >= g_video_index
       /\ g_screenshots_index' = g_screenshots_index
            \/ g_video_index' = g_video_index]_vars

\* C18: the flags of a session go one way and a finished session is frozen:
\* no step of any Start, Stop or capture thread sets recording again once it
\* is cleared, clears finished once it is set, removes a session, or changes
\* the screenshots or the elapsed time of a finished session.
C18_FlagsOneWayAndFrozen ==
    [][\A k \in DOMAIN screen_video_queue :
            /\ k \in DOMAIN screen_video_queue'
            /\ ~screen_video_queue[k].recording => ~screen_video_queue'[k].recording
            /\ screen_video_queue[k].finished =>
                /\ screen_video_queue'[k].finished
                /\ screen_video_queue'[k].screenshots = screen_video_queue[k].screenshots
                /\ screen_video_queue'[k].elapsed = screen_video_queue[k].elapsed]_vars

C18_Witness ==
    /\ Len(screen_video_queue) = 2
    /\ Session(0).finished
    /\ Session(0).screenshots # <<>>
    /\ stop.pc = "idle"
    /\ stop.calls = 2
    /\ stop.h = 0
    /\ stop.outcome \in {"video", "skipped"}
    /\ stop.videos0 = 1
    /\ Session(1).recording
    /\ Session(1).elapsed # 0

\* C19: a Stop that gave up does not strand the session. A later Stop on the
\* same session, begun after the capture thread has set finished, reads
\* finished true at its first read, sleeps zero times and does not give up;
\* it ends with a video exactly if the elapsed time is not 0 and there is a
\* screenshot, and with nothing written otherwise.
C19_StopAfterGiveUpAssembles ==
    stop.retry =>
        /\ stop.count = 0
        /\ stop.outcome \in {"running", "video", "skipped"}
        /\ stop.pc = "poll" =>
                /\ ~ENABLED StopWait
                /\ ENABLED (\E video_name \in VideoNames : StopFinish(video_name))
        /\ stop.pc = "idle" =>
                LET s == Session(stop.h)
                IN /\ stop.outcome = "video"
                        <=> (s.elapsed # 0 /\ s.screenshots # <<>>)
                   /\ stop.outcome = "video" =>
                        /\ Len(videos) = stop.videos0 + 1
                        /\ videos[Len(videos)].handle = stop.h
                   /\ stop.outcome = "skipped" => Len(videos) = stop.videos0

C19_Witness ==
    /\ stop.retry
    /\ stop.pc = "idle"
    /\ stop.outcome = "video"
    /\ stop.videos0 = 0
    /\ stop.calls = 2

\* C20: over any sequence of Stop calls at most one video is written for a
\* session: a Stop on a session whose video has been written takes no
\* further video path and writes no further video.
C20_OneVideoPerSession ==
    \A j, k \in DOMAIN videos :
        videos[j].handle = videos[k].handle => j = k

====
